---------------------------- MODULE Spec2Model ----------------------------
(* Token-passing games (Dreidel, Left-Center-Right) solved as layered      *)
(* absorbing Markov chains: the combinatorial indexer of unrank.py and the *)
(* solvers of dreidel.py and left_center_right.py.                         *)
EXTENDS Integers, Sequences, FiniteSets, Bags, TLC

VARIABLES
    game,      \* "dreidel" | "lcr" | "none": which class the object `self` is
    self,      \* the dataclass instance: its fields, `values` as a set of keys
    stack,     \* the active solve() frames, innermost last: [arg, pc]
    sys,       \* the rows assembled by the innermost frame (data, rows, cols, b)
    outcome,   \* how the last top-level solve() call ended
    log,       \* levels whose linear solve the call in progress has issued
    op,        \* indexer run: which bijection is exercised
    inp,       \* indexer run: the arguments (r, n, k) or (r, n, s)
    out,       \* indexer run: the unranked object
    back,      \* indexer run: the rank computed from `out`
    upc        \* indexer run: position "in" -> "unranked" -> "ranked"

vars == <<game, self, stack, sys, outcome, log, op, inp, out, back, upc>>
solverVars == <<game, self, stack, sys, outcome, log>>
indexerVars == <<op, inp, out, back, upc>>

-----------------------------------------------------------------------------
(* Bounds of the model *)

\* largest universe size n of unrank_subset(r, n, k)
MaxN == 6
\* largest length n of unrank_weak_composition(r, n, s)
MaxLen == 4
\* largest sum s of unrank_weak_composition(r, n, s)
MaxSum == 4

-----------------------------------------------------------------------------
(* Sequence helpers (Python list semantics, 1-based here) *)

RECURSIVE SumSeq(_)
SumSeq(s) == IF s = <<>> THEN 0 ELSE Head(s) + SumSeq(Tail(s))

\* x[:-1]
ButLast(s) == SubSeq(s, 1, Len(s) - 1)

\* x[-1]
Last(s) == s[Len(s)]

\* list(s): the list a comprehension or a generator builds
List(s) == SubSeq(s, 1, Len(s))

\* del s[i] with a 1-based index i
DelAt(s, i) == SubSeq(s, 1, i - 1) \o SubSeq(s, i + 1, Len(s))

-----------------------------------------------------------------------------
(* unrank.py *)

\* math.comb(n, k) for n >= 0, k >= 0
RECURSIVE comb(_, _)
comb(n, k) ==
    IF k = 0 THEN 1
    ELSE IF n < k THEN 0
    ELSE (comb(n - 1, k - 1) * n) \div k

\* rank_subset: sum(math.comb(c, j + 1) for j, c in enumerate(S))
rank_subset(S) == SumSeq([j \in 1..Len(S) |-> comb(S[j], j)])

\* The inner while loop of unrank_subset with the comparison weakened to <=
RECURSIVE BinarySearchOffByOne(_, _, _, _)
BinarySearchOffByOne(r, k, lower, n) ==
    IF lower < n
    THEN LET mid == (lower + n + 1) \div 2
         IN  IF r <= comb(mid, k)
             THEN BinarySearchOffByOne(r, k, lower, mid - 1)
             ELSE BinarySearchOffByOne(r, k, mid, n)
    ELSE n

\* The inner while loop of unrank_subset (binary search): the value of n
\* when the loop ends
RECURSIVE BinarySearch(_, _, _, _)
BinarySearch(r, k, lower, n) ==
    IF lower < n
    THEN LET mid == (lower + n + 1) \div 2
         IN  IF r < comb(mid, k)
             THEN BinarySearch(r, k, lower, mid - 1)
             ELSE BinarySearch(r, k, mid, n)
    ELSE n

\* The outer while loop of unrank_subset; S[k] of the code is S[k + 1] here
RECURSIVE UnrankLoop(_, _, _, _)
UnrankLoop(r, n, k, S) ==
    IF k > 0
    THEN LET n2 == BinarySearch(r, k, k - 1, n)
         IN  UnrankLoop(r - comb(n2, k), n2, k - 1, [S EXCEPT ![k] = n2])
    ELSE S

\* unrank_subset, the last (effective) definition of the module
unrank_subset(r, n, k) == UnrankLoop(r, n, k, List([j \in 1..k |-> 0]))

\* np.cumsum
RECURSIVE cumsum(_)
cumsum(x) ==
    IF x = <<>> THEN <<>>
    ELSE LET p == cumsum(ButLast(x))
         IN  Append(p, (IF p = <<>> THEN 0 ELSE Last(p)) + Last(x))

\* np.diff(a, prepend=lo, append=hi)
diff(a, lo, hi) ==
    LET e == <<lo>> \o a \o <<hi>>
    IN  List([i \in 1..(Len(e) - 1) |-> e[i + 1] - e[i]])

\* rank_weak_composition with the partial sums taken over all of x
rank_weak_composition_all(x) ==
    LET c == cumsum(List([i \in 1..Len(x) |-> x[i] + 1]))
    IN  rank_subset(List([i \in 1..Len(c) |-> c[i] - 1]))

\* rank_weak_composition: rank_subset(np.cumsum(np.array(x[:-1]) + 1) - 1)
rank_weak_composition(x) ==
    LET y == ButLast(x)
        c == cumsum(List([i \in 1..Len(y) |-> y[i] + 1]))
    IN  rank_subset(List([i \in 1..Len(c) |-> c[i] - 1]))

\* unrank_weak_composition
unrank_weak_composition(r, n, s) ==
    LET d == diff(unrank_subset(r, s + n - 1, n - 1), -1, s + n - 1)
    IN  List([i \in 1..Len(d) |-> d[i] - 1])

-----------------------------------------------------------------------------
(* Indexer runs: the arguments are drawn in the initial state, then the    *)
(* object is unranked and ranked again.                                    *)

SubsetInputs ==
    {[r |-> r, n |-> n, k |-> k] :
        r \in 0..(comb(MaxN, MaxN \div 2) - 1), n \in 0..MaxN, k \in 0..MaxN}

WeakInputs ==
    {[r |-> r, n |-> n, s |-> s] :
        r \in 0..(comb(MaxSum + MaxLen - 1, MaxLen - 1) - 1),
        n \in 1..MaxLen, s \in 0..MaxSum}

IdleSolver ==
    /\ game = "none"
    /\ self = [values |-> {}]
    /\ stack = <<>>
    /\ sys = <<>>
    /\ outcome = "none"
    /\ log = <<>>

InitIndexer ==
    /\ IdleSolver
    /\ upc = "in"
    /\ out = <<>>
    /\ back = -1
    /\ \/ /\ op = "subset"
          /\ inp \in {i \in SubsetInputs : i.k <= i.n /\ i.r < comb(i.n, i.k)}
       \/ /\ op = "weak"
          /\ inp \in {i \in WeakInputs : i.r < comb(i.s + i.n - 1, i.n - 1)}

UnrankSubset ==
    /\ upc = "in" /\ op = "subset"
    /\ out' = unrank_subset(inp.r, inp.n, inp.k)
    /\ upc' = "unranked"
    /\ UNCHANGED <<op, inp, back>>
    /\ UNCHANGED solverVars

RankSubset ==
    /\ upc = "unranked" /\ op = "subset"
    /\ back' = rank_subset(out)
    /\ upc' = "ranked"
    /\ UNCHANGED <<op, inp, out>>
    /\ UNCHANGED solverVars

UnrankWeakComposition ==
    /\ upc = "in" /\ op = "weak"
    /\ out' = unrank_weak_composition(inp.r, inp.n, inp.s)
    /\ upc' = "unranked"
    /\ UNCHANGED <<op, inp, back>>
    /\ UNCHANGED solverVars

RankWeakComposition ==
    /\ upc = "unranked" /\ op = "weak"
    /\ back' = rank_weak_composition(out)
    /\ upc' = "ranked"
    /\ UNCHANGED <<op, inp, out>>
    /\ UNCHANGED solverVars

NextIndexer ==
    \/ UnrankSubset
    \/ RankSubset
    \/ UnrankWeakComposition
    \/ RankWeakComposition

SpecIndexer == InitIndexer /\ [][NextIndexer]_vars

-----------------------------------------------------------------------------
(* dreidel.py: the transition model *)

\* The result of remove_losers: the returned (state, turn), or the
\* exception it raises
Returned(state, turn) == [state |-> state, turn |-> turn, err |-> ""]
Raised(err) == [state |-> <<>>, turn |-> 0, err |-> err]

\* state.index(lose), 0-based; -1 when lose is not in state (ValueError)
IndexOf(state, lose) ==
    IF \E i \in 1..Len(state) : state[i] = lose
    THEN (CHOOSE i \in 1..Len(state) :
              state[i] = lose /\ \A j \in 1..(i - 1) : state[j] # lose) - 1
    ELSE -1

\* The while loop of remove_losers with the test player < turn
RECURSIVE RemoveLoopStrict(_, _, _)
RemoveLoopStrict(state, turn, lose) ==
    IF \E i \in 1..Len(state) : state[i] = lose
    THEN LET s1 == [state EXCEPT ![Len(state)] = @ + lose]
             player == IndexOf(s1, lose)
         IN  IF player < 0 THEN Raised("ValueError")
             ELSE RemoveLoopStrict(DelAt(s1, player + 1),
                                   IF player < turn THEN turn - 1 ELSE turn,
                                   lose)
    ELSE Returned(state, turn)

\* The while loop of remove_losers
RECURSIVE RemoveLoop(_, _, _)
RemoveLoop(state, turn, lose) ==
    IF \E i \in 1..Len(state) : state[i] = lose
    THEN LET s1 == [state EXCEPT ![Len(state)] = @ + lose]
             player == IndexOf(s1, lose)
         IN  IF player < 0 THEN Raised("ValueError")
             ELSE RemoveLoop(DelAt(s1, player + 1),
                             IF player <= turn THEN turn - 1 ELSE turn, lose)
    ELSE Returned(state, turn)

\* Python's a % b for a >= 0; b = 0 raises ZeroDivisionError before this
PyMod(a, b) == IF b > 0 THEN a % b ELSE -((-a) % (-b))

\* Dreidel.remove_losers
remove_losers(state, turn) ==
    LET lose == self.min_coins - 1
    IN  IF state[1] = lose /\ ~self.is_ev THEN Returned(<<0>>, 0)
        ELSE LET r == RemoveLoop(state, turn, lose)
             IN  IF r.err # "" THEN r
                 ELSE IF Len(r.state) - 1 = 0 THEN Raised("ZeroDivisionError")
                 ELSE Returned(r.state, PyMod(r.turn + 1, Len(r.state) - 1))

\* [c - 1 for c in next_state[:-1]] + [self.num_players]
Ante(state) ==
    List([i \in 1..Len(state) |->
             IF i < Len(state) THEN state[i] - 1 ELSE self.num_players])

\* Everything (Gimel), before remove_losers
Gimel(state, turn) ==
    Ante([state EXCEPT ![turn + 1] = @ + Last(state)])

\* Hei without the ante that refills an emptied pot
HeiNoAnte(state, turn) ==
    LET win == (Last(state) + self.half_odd) \div 2
        s1 == [state EXCEPT ![turn + 1] = @ + win]
    IN  [s1 EXCEPT ![Len(s1)] = @ - win]

\* Half (Hei), before remove_losers
Hei(state, turn) ==
    LET win == (Last(state) + self.half_odd) \div 2
        s1 == [state EXCEPT ![turn + 1] = @ + win]
        s2 == [s1 EXCEPT ![Len(s1)] = @ - win]
    IN  IF Last(s2) = 0 THEN Ante(s2) ELSE s2

\* Put (Shin), before remove_losers
Shin(state, turn) ==
    LET s1 == [state EXCEPT ![turn + 1] = @ - 1]
    IN  [s1 EXCEPT ![Len(s1)] = @ + 1]

\* The four post-outcome states in the order next_states makes them
PostOutcomes(state, turn) ==
    <<state, Gimel(state, turn), Hei(state, turn), Shin(state, turn)>>

\* Dreidel.next_states: what the generator yields, in order
dreidel_next_states(state, turn) ==
    LET post == PostOutcomes(state, turn)
    IN  List([i \in 1..Len(post) |-> remove_losers(post[i], turn)])

\* Dreidel.all_states with P for self.num_players: the (state, turn) pairs
\* in the order yielded
dreidel_all_states_at(P) ==
    LET count == comb(self.num_coins - 1 - P * (self.min_coins - 1), P)
        st(rank) ==
            LET w == unrank_weak_composition(
                         rank, P + 1, self.num_coins - 1 - P * self.min_coins)
            IN  List([i \in 1..Len(w) |->
                    IF i < Len(w) THEN w[i] + self.min_coins ELSE w[i] + 1])
    IN  List([row \in 1..(count * P) |->
                 <<st((row - 1) \div P), (row - 1) % P>>])

\* Dreidel.all_states
dreidel_all_states == dreidel_all_states_at(self.num_players)

-----------------------------------------------------------------------------
(* left_center_right.py: the transition model *)

\* Faces of a die that only has dots
FacesAllDots == <<0, 0, 0, 0, 0, 0>>

\* [-1, self.num_players, 1, 0, 0, 0]
Faces == <<-1, self.num_players, 1, 0, 0, 0>>

\* ApplyDie without next_state[turn] -= 1
ApplyDieNoDebit(state, turn, die) ==
    IF die < self.num_players
    THEN [state EXCEPT ![((turn + die) % self.num_players) + 1] = @ + 1]
    ELSE state

\* One die of a roll applied to next_state
ApplyDie(state, turn, die) ==
    LET s1 == [state EXCEPT ![turn + 1] = @ - 1]
    IN  IF die < self.num_players
        THEN [s1 EXCEPT ![((turn + die) % self.num_players) + 1] = @ + 1]
        ELSE s1

\* The next_state of every roll of product(faces, repeat=d), as a bag:
\* next_state |-> number of rolls yielding it
RECURSIVE RollBag(_, _, _)
RollBag(state, turn, d) ==
    IF d = 0 THEN SetToBag({state})
    ELSE LET B(f) == RollBag(ApplyDie(state, turn, Faces[f]), turn, d - 1)
         IN  B(1) (+) B(2) (+) B(3) (+) B(4) (+) B(5) (+) B(6)

Min(a, b) == IF a < b THEN a ELSE b

\* lcr_next_states with the distinct successors not counted
lcr_next_states_uncounted(state, turn) ==
    LET next_turn == (turn + 1) % self.num_players
        bag == RollBag(state, turn, Min(state[turn + 1], self.max_rolls))
    IN  {[ns |-> s, nt |-> next_turn, count |-> 1] : s \in DOMAIN bag}

\* collections.Counter(self.next_states(state, turn)): the distinct
\* (next_state, next_turn) with their counts
lcr_next_states(state, turn) ==
    LET next_turn == (turn + 1) % self.num_players
        bag == RollBag(state, turn, Min(state[turn + 1], self.max_rolls))
    IN  {[ns |-> s, nt |-> next_turn, count |-> bag[s]] : s \in DOMAIN bag}

\* LeftCenterRight.all_states with the range bound C(total + P - 1, P)
lcr_all_states_wrong_bound(total_coins) ==
    LET P == self.num_players
        count == comb(total_coins + P - 1, P)
    IN  List([row \in 1..(count * P) |->
                 <<unrank_weak_composition((row - 1) \div P, P, total_coins),
                   (row - 1) % P>>])

\* LeftCenterRight.all_states
lcr_all_states(total_coins) ==
    LET P == self.num_players
        count == comb(total_coins + P - 1, P - 1)
    IN  List([row \in 1..(count * P) |->
                 <<unrank_weak_composition((row - 1) \div P, P, total_coins),
                   (row - 1) % P>>])

-----------------------------------------------------------------------------
(* The solvers: Dreidel.solve and LeftCenterRight.solve *)

\* largest number of coins of a Dreidel object
MaxCoins == 6
\* largest number of players: of a LeftCenterRight object, and asked of
\* Dreidel.solve
MaxPlayers == 3
\* largest total asked of LeftCenterRight.solve
MaxTotal == 4
\* largest max_rolls of a LeftCenterRight object (3 is the default)
MaxRolls == 3
\* largest level a caller asks of an object it calls again and again
MaxAsk == 3

\* The stored solved level: Dreidel.num_players, LeftCenterRight.total_coins
Marker == IF game = "dreidel" THEN self.num_players ELSE self.total_coins

\* The smallest admissible level, the first one the while loop of solve
\* solves on a new object (the initial marker + 1): 2 players, total 1
MinLevel == IF game = "dreidel" THEN 2 ELSE 1

\* all_states of the game at the level being solved (Dreidel reads the
\* level from self.num_players, LeftCenterRight takes it as argument)
all_states(level) ==
    IF game = "dreidel" THEN dreidel_all_states ELSE lcr_all_states(level)

\* The keys written by the final loop of solve
KeysOf(level) ==
    LET a == all_states(level) IN {a[i] : i \in 1..Len(a)}

\* One successor of a row as solve treats it: its weight num/den, its
\* class, what it adds to value directly (credit, in units of the weight),
\* the column of its matrix entry, and the exception it raises
Term(k, ns, nt, num, den, cls, credit, col, err) ==
    [k |-> k, ns |-> ns, nt |-> nt, num |-> num, den |-> den, cls |-> cls,
     credit |-> credit, col |-> col, err |-> err]

\* dreidel_term with every game-over outcome credited in win-probability
\* mode, the test n == 0 left out
dreidel_term_credits_sentinel(level, k, r) ==
    IF r.err # ""
    THEN Term(k, <<>>, 0, 1, 4, "raise", 0, -1, r.err)
    ELSE LET n == Len(r.state) - 1
         IN  IF n <= 1
             THEN Term(k, r.state, r.turn, 1, 4, "terminal",
                       IF self.is_ev THEN 0 ELSE 1, -1, "")
             ELSE IF n < level
             THEN Term(k, r.state, r.turn, 1, 4, "lower", 0, -1,
                       IF <<r.state, r.turn>> \in self.values
                       THEN "" ELSE "KeyError")
             ELSE Term(k, r.state, r.turn, 1, 4, "same", 0,
                       rank_weak_composition(
                           List([i \in 1..Len(r.state) |->
                               IF i < Len(r.state)
                               THEN r.state[i] - self.min_coins
                               ELSE r.state[i] - 1])) * self.num_players
                       + r.turn, "")

\* dreidel.py lines 29-40 for the k-th outcome r of next_states
dreidel_term(level, k, r) ==
    IF r.err # ""
    THEN Term(k, <<>>, 0, 1, 4, "raise", 0, -1, r.err)
    ELSE LET n == Len(r.state) - 1
         IN  IF n <= 1
             THEN Term(k, r.state, r.turn, 1, 4, "terminal",
                       IF self.is_ev \/ n = 0 THEN 0 ELSE 1, -1, "")
             ELSE IF n < level
             THEN Term(k, r.state, r.turn, 1, 4, "lower", 0, -1,
                       IF <<r.state, r.turn>> \in self.values
                       THEN "" ELSE "KeyError")
             ELSE Term(k, r.state, r.turn, 1, 4, "same", 0,
                       rank_weak_composition(
                           List([i \in 1..Len(r.state) |->
                               IF i < Len(r.state)
                               THEN r.state[i] - self.min_coins
                               ELSE r.state[i] - 1])) * self.num_players
                       + r.turn, "")

\* The exception a row raises: that of its first raising successor
RowErr(terms) ==
    LET bad == {t \in terms : t.err # ""}
    IN  IF bad = {} THEN ""
        ELSE (CHOOSE t \in bad : \A u \in bad : t.k <= u.k).err

Row(state, turn, direct, base, terms) ==
    [state |-> state, turn |-> turn, diag |-> 1, direct |-> direct,
     base |-> base, terms |-> terms, err |-> RowErr(terms)]

\* dreidel.py lines 24-41: one row of the system
dreidel_row(level, state, turn) ==
    LET nx == dreidel_next_states(state, turn)
    IN  Row(state, turn, FALSE, IF self.is_ev THEN 1 ELSE 0,
            {dreidel_term(level, k, nx[k]) : k \in 1..Len(nx)})

\* lcr_term with the column rank + next_turn, the rank not multiplied by
\* the number of players
lcr_term_col_unscaled(total_coins, c, total) ==
    LET next_total == SumSeq(c.ns)
    IN  IF c.ns[c.nt + 1] = next_total
        THEN Term(0, c.ns, c.nt, c.count, total, "terminal",
                  IF ~self.is_ev /\ c.nt = 0 THEN 1 ELSE 0, -1, "")
        ELSE IF next_total < total_coins
        THEN Term(0, c.ns, c.nt, c.count, total, "lower", 0, -1,
                  IF <<c.ns, c.nt>> \in self.values THEN "" ELSE "KeyError")
        ELSE Term(0, c.ns, c.nt, c.count, total, "same", 0,
                  rank_weak_composition(c.ns) + c.nt, "")

\* left_center_right.py lines 34-44 for one item of the counter
lcr_term(total_coins, c, total) ==
    LET next_total == SumSeq(c.ns)
    IN  IF c.ns[c.nt + 1] = next_total
        THEN Term(0, c.ns, c.nt, c.count, total, "terminal",
                  IF ~self.is_ev /\ c.nt = 0 THEN 1 ELSE 0, -1, "")
        ELSE IF next_total < total_coins
        THEN Term(0, c.ns, c.nt, c.count, total, "lower", 0, -1,
                  IF <<c.ns, c.nt>> \in self.values THEN "" ELSE "KeyError")
        ELSE Term(0, c.ns, c.nt, c.count, total, "same", 0,
                  rank_weak_composition(c.ns) * self.num_players + c.nt, "")

RECURSIVE SumCounts(_)
SumCounts(counter) ==
    IF counter = {} THEN 0
    ELSE LET c == CHOOSE x \in counter : TRUE
         IN  c.count + SumCounts(counter \ {c})

\* lcr_row with value = 1 if self.is_ev else 0
lcr_row_counts_skipped(total_coins, state, turn) ==
    IF state[turn + 1] = total_coins
    THEN Row(state, turn, TRUE,
             IF self.is_ev \/ turn # 0 THEN 0 ELSE 1, {})
    ELSE LET counter == lcr_next_states(state, turn)
             total == SumCounts(counter)
         IN  Row(state, turn, FALSE, IF self.is_ev THEN 1 ELSE 0,
                 {lcr_term(total_coins, c, total) : c \in counter})

\* left_center_right.py lines 24-45: one row of the system
lcr_row(total_coins, state, turn) ==
    IF state[turn + 1] = total_coins
    THEN Row(state, turn, TRUE,
             IF self.is_ev \/ turn # 0 THEN 0 ELSE 1, {})
    ELSE LET counter == lcr_next_states(state, turn)
             total == SumCounts(counter)
         IN  Row(state, turn, FALSE,
                 IF self.is_ev /\ state[turn + 1] # 0 THEN 1 ELSE 0,
                 {lcr_term(total_coins, c, total) : c \in counter})

\* The for loop of solve over enumerate(all_states)
AssembleRows(level) ==
    LET a == all_states(level)
    IN  List([row \in 1..Len(a) |->
                 IF game = "dreidel"
                 THEN dreidel_row(level, a[row][1], a[row][2])
                 ELSE lcr_row(level, a[row][1], a[row][2])])

\* The exception the for loop raises: that of the first raising row
AssembleErr(rows) ==
    IF \E i \in 1..Len(rows) : rows[i].err # ""
    THEN rows[CHOOSE i \in 1..Len(rows) :
                  rows[i].err # "" /\ \A j \in 1..(i - 1) : rows[j].err = ""].err
    ELSE ""

Top == stack[Len(stack)]

\* A new frame of solve(arg): Dreidel.solve starts with its assertion
Frame(arg) ==
    [arg |-> arg, pc |-> IF game = "dreidel" THEN "assert" ELSE "loop"]

Goto(pc) == [stack EXCEPT ![Len(stack)].pc = pc]

\* An exception leaves every frame: nothing in solve catches it
Raise(err) ==
    /\ stack' = <<>>
    /\ sys' = <<>>
    /\ outcome' = err
    /\ log' = <<>>

DreidelConfigs ==
    [num_coins : 1..MaxCoins, is_ev : BOOLEAN, half_odd : {0, 1},
     min_coins : {0, 1}, values : {{}}, num_players : {1}]

LcrConfigs ==
    [num_players : 1..MaxPlayers, is_ev : BOOLEAN, max_rolls : 1..MaxRolls,
     values : {{}}, total_coins : {0}]

\* The levels a caller asks for: of a fresh object, of any object
FreshLevels == IF game = "dreidel" THEN 1..MaxPlayers ELSE 0..MaxTotal
Levels == IF game = "dreidel" THEN 1..MaxAsk ELSE 0..MaxAsk

Init ==
    /\ \/ game = "dreidel" /\ self \in DreidelConfigs
       \/ game = "lcr" /\ self \in LcrConfigs
    /\ stack = <<>>
    /\ sys = <<>>
    /\ outcome = "none"
    /\ log = <<>>
    /\ op = "none" /\ inp = <<>> /\ out = <<>> /\ back = -1 /\ upc = "none"

\* A caller calls solve(level) on the object
Call(level) ==
    /\ stack = <<>>
    /\ stack' = <<Frame(level)>>
    /\ outcome' = "running"
    /\ log' = <<>>
    /\ UNCHANGED <<game, self, sys>>
    /\ UNCHANGED indexerVars

\* AssertCoins with the assertion placed after self.num_players is set
AssertCoinsAfterMarker ==
    /\ stack # <<>> /\ stack[Len(stack)].pc = "assert"
    /\ IF self.num_coins >= (self.min_coins + 1) * stack[Len(stack)].arg
       THEN /\ stack' = [stack EXCEPT ![Len(stack)].pc = "loop"]
            /\ UNCHANGED <<sys, outcome, log, self>>
       ELSE /\ self' = [self EXCEPT !.num_players = stack[Len(stack)].arg]
            /\ stack' = <<>>
            /\ sys' = <<>>
            /\ outcome' = "AssertionError: num_coins"
            /\ log' = <<>>
    /\ UNCHANGED game
    /\ UNCHANGED indexerVars

\* dreidel.py line 19
AssertCoins ==
    /\ stack # <<>> /\ Top.pc = "assert"
    /\ IF self.num_coins >= (self.min_coins + 1) * Top.arg
       THEN /\ stack' = Goto("loop")
            /\ UNCHANGED <<sys, outcome, log>>
       ELSE Raise("AssertionError: num_coins")
    /\ UNCHANGED <<game, self>>
    /\ UNCHANGED indexerVars

\* SolveLower without the while loop: the level asked for is solved at once
SolveLowerSkipped ==
    /\ stack # <<>> /\ stack[Len(stack)].pc = "loop"
    /\ self' = IF game = "dreidel"
               THEN [self EXCEPT !.num_players = stack[Len(stack)].arg]
               ELSE [self EXCEPT !.total_coins = stack[Len(stack)].arg]
    /\ stack' = [stack EXCEPT ![Len(stack)].pc = "assemble"]
    /\ UNCHANGED <<game, sys, outcome, log>>
    /\ UNCHANGED indexerVars

\* dreidel.py lines 20-22, left_center_right.py lines 20-22: one test of
\* the while condition, then the recursive call or the assignment
SolveLower ==
    /\ stack # <<>> /\ Top.pc = "loop"
    /\ IF Marker + 1 < Top.arg
       THEN /\ stack' = Append(stack, Frame(Marker + 1))
            /\ UNCHANGED self
       ELSE /\ self' = IF game = "dreidel"
                       THEN [self EXCEPT !.num_players = Top.arg]
                       ELSE [self EXCEPT !.total_coins = Top.arg]
            /\ stack' = Goto("assemble")
    /\ UNCHANGED <<game, sys, outcome, log>>
    /\ UNCHANGED indexerVars

\* dreidel.py lines 23-41, left_center_right.py lines 23-45
Assemble ==
    /\ stack # <<>> /\ Top.pc = "assemble"
    /\ LET rows == AssembleRows(Top.arg)
           err == AssembleErr(rows)
       IN  IF err = ""
           THEN /\ sys' = rows
                /\ stack' = Goto("gmres")
                /\ UNCHANGED <<outcome, log>>
           ELSE Raise(err)
    /\ UNCHANGED <<game, self>>
    /\ UNCHANGED indexerVars

\* Gmres with the assertion placed after the loop that stores x
GmresStoresBeforeAssert ==
    /\ stack # <<>> /\ stack[Len(stack)].pc = "gmres"
    /\ \E info \in {0, 1} :
           IF info = 0
           THEN /\ stack' = [stack EXCEPT ![Len(stack)].pc = "store"]
                /\ log' = Append(log, stack[Len(stack)].arg)
                /\ UNCHANGED <<sys, outcome, self>>
           ELSE /\ self' = [self EXCEPT !.values =
                               @ \cup KeysOf(stack[Len(stack)].arg)]
                /\ stack' = <<>>
                /\ sys' = <<>>
                /\ outcome' = "AssertionError: info"
                /\ log' = <<>>
    /\ UNCHANGED game
    /\ UNCHANGED indexerVars

\* dreidel.py lines 42-43, left_center_right.py lines 46-47: the iterative
\* solver reports info = 0 or not
Gmres ==
    /\ stack # <<>> /\ Top.pc = "gmres"
    /\ \E info \in {0, 1} :
           IF info = 0
           THEN /\ stack' = Goto("store")
                /\ log' = Append(log, Top.arg)
                /\ UNCHANGED <<sys, outcome>>
           ELSE Raise("AssertionError: info")
    /\ UNCHANGED <<game, self>>
    /\ UNCHANGED indexerVars

\* Store with the loop over zip(all_states, x) left out
StoreWritesNothing ==
    /\ stack # <<>> /\ stack[Len(stack)].pc = "store"
    /\ stack' = SubSeq(stack, 1, Len(stack) - 1)
    /\ sys' = <<>>
    /\ outcome' = IF Len(stack) = 1 THEN "ok" ELSE outcome
    /\ log' = IF Len(stack) = 1 THEN <<>> ELSE log
    /\ UNCHANGED <<game, self>>
    /\ UNCHANGED indexerVars

\* dreidel.py lines 44-45, left_center_right.py lines 48-49, and the return
Store ==
    /\ stack # <<>> /\ Top.pc = "store"
    /\ self' = [self EXCEPT !.values = @ \cup KeysOf(Top.arg)]
    /\ stack' = SubSeq(stack, 1, Len(stack) - 1)
    /\ sys' = <<>>
    /\ outcome' = IF Len(stack) = 1 THEN "ok" ELSE outcome
    /\ log' = IF Len(stack) = 1 THEN <<>> ELSE log
    /\ UNCHANGED game
    /\ UNCHANGED indexerVars

Next ==
    \/ \E level \in Levels : Call(level)
    \/ AssertCoins
    \/ SolveLower
    \/ Assemble
    \/ Gmres
    \/ Store

Spec == Init /\ [][Next]_vars

-----------------------------------------------------------------------------
(* Claims about the indexer *)

StrictlyIncreasing(S) == \A i \in 1..(Len(S) - 1) : S[i] < S[i + 1]

\* C1: for n >= k >= 0 and 0 <= r < C(n,k), unrank_subset(r, n, k) is a
\* strictly increasing list of k elements of {0..n-1} and rank_subset of it
\* is r again.
C1_SubsetRoundTrip ==
    (op = "subset" /\ upc \in {"unranked", "ranked"}) =>
        /\ Len(out) = inp.k
        /\ StrictlyIncreasing(out)
        /\ \A i \in 1..Len(out) : out[i] \in 0..(inp.n - 1)
        /\ upc = "ranked" => back = inp.r

C1_Witness ==
    /\ op = "subset" /\ upc = "ranked"
    /\ inp.n = MaxN /\ inp.k = 3 /\ inp.r = 11
    /\ back = 11
    /\ out = <<0, 2, 5>>

\* C2: for n >= 1, s >= 0 and 0 <= r < C(s+n-1, n-1),
\* rank_weak_composition(unrank_weak_composition(r, n, s)) = r, the edge
\* cases n = 1 and s = 0 included; the unranked object is a length-n vector
\* of non-negative entries summing to s.
C2_WeakCompositionRoundTrip ==
    (op = "weak" /\ upc \in {"unranked", "ranked"}) =>
        /\ Len(out) = inp.n
        /\ \A i \in 1..Len(out) : out[i] >= 0
        /\ SumSeq(out) = inp.s
        /\ upc = "ranked" => back = inp.r

C2_Witness ==
    /\ op = "weak" /\ upc = "ranked"
    /\ inp.n = 3 /\ inp.s = 3 /\ inp.r = 4
    /\ back = 4
    /\ SumSeq(out) = 3 /\ Len(out) = 3

-----------------------------------------------------------------------------
(* The calls that complete normally: no step raises *)

Completes == outcome' \in {"running", "ok"}

NextNormal ==
    \/ \E level \in Levels : Call(level)
    \/ AssertCoins /\ Completes
    \/ SolveLower
    \/ Assemble /\ Completes
    \/ Gmres /\ Completes
    \/ Store

SpecNormal == Init /\ [][NextNormal]_vars

-----------------------------------------------------------------------------
(* One call of solve on a fresh object *)

NextFresh ==
    \/ \E level \in FreshLevels : outcome = "none" /\ Call(level)
    \/ AssertCoins
    \/ SolveLower
    \/ Assemble
    \/ Gmres
    \/ Store

SpecFresh == Init /\ [][NextFresh]_vars

-----------------------------------------------------------------------------
(* Claims about the solvers *)

InSolve(pcs) == stack # <<>> /\ Top.pc \in pcs

\* The number of players of a state of the level
PlayersAt(level) == IF game = "dreidel" THEN level ELSE self.num_players

\* Length-n vectors of non-negative integers summing to s
RECURSIVE Compositions(_, _)
Compositions(n, s) ==
    IF n = 0 THEN (IF s = 0 THEN {<<>>} ELSE {})
    ELSE UNION {{Append(v, x) : v \in Compositions(n - 1, s - x)} : x \in 0..s}

\* The valid states of a level, by their definition
ValidStates(level) ==
    IF game = "dreidel"
    THEN {v \in Compositions(level + 1, self.num_coins) :
              /\ \A i \in 1..level : v[i] >= self.min_coins
              /\ v[level + 1] >= 1}
    ELSE Compositions(self.num_players, level)

\* The range bound of all_states
RangeBound(level) ==
    IF game = "dreidel"
    THEN comb(self.num_coins - 1 - level * (self.min_coins - 1), level)
    ELSE comb(level + self.num_players - 1, self.num_players - 1)

\* The keys of a level, whatever level self stores
LevelKeys(level) ==
    LET a == IF game = "dreidel" THEN dreidel_all_states_at(level)
             ELSE lcr_all_states(level)
    IN  {a[i] : i \in 1..Len(a)}

\* C3: at every level solve enumerates, all_states yields exactly the valid
\* states of the level, each once and with every turn 0..P-1, and their
\* number is the binomial range bound; the rows of the assembled system
\* are these pairs in this order.
C3_EnumerationComplete ==
    InSolve({"assemble", "gmres", "store"}) =>
        LET a == all_states(Top.arg)
            pairs == {a[i] : i \in 1..Len(a)}
            P == PlayersAt(Top.arg)
        IN  /\ pairs = ValidStates(Top.arg) \X (0..(P - 1))
            /\ Cardinality(pairs) = Len(a)
            /\ Cardinality(ValidStates(Top.arg)) = RangeBound(Top.arg)
            /\ Top.pc = "gmres" =>
                   /\ Len(sys) = Len(a)
                   /\ \A i \in 1..Len(a) : <<sys[i].state, sys[i].turn>> = a[i]

C3_Witness ==
    /\ InSolve({"gmres"})
    /\ Top.arg = 3
    /\ PlayersAt(3) = 3
    /\ Len(sys) = 3 * RangeBound(3)
    /\ RangeBound(3) >= 10

\* C4: when the system of level L is assembled in a sequence of normally
\* completing calls, every level from the smallest admissible one up to
\* L - 1 has its values stored; the levels whose linear solve one call
\* issues are strictly ascending.
C4_LowerLevelsFirst ==
    /\ InSolve({"assemble", "gmres", "store"}) =>
           \A l \in MinLevel..(Top.arg - 1) : LevelKeys(l) \subseteq self.values
    /\ StrictlyIncreasing(log)

C4_Witness ==
    /\ InSolve({"store"})
    /\ Len(stack) = 1
    /\ Top.arg = MinLevel + 2
    /\ log = <<MinLevel, MinLevel + 1, MinLevel + 2>>
    /\ LevelKeys(MinLevel) \subseteq self.values
    /\ LevelKeys(MinLevel + 1) \subseteq self.values
    /\ LevelKeys(MinLevel + 2) \cap self.values = {}

\* C5: a call of solve for a level already solved issues no linear solve
\* and writes no existing entry of values: each level is solved at most
\* once and no key is written twice.
C5_SolvedOnce ==
    [][/\ InSolve({"gmres"}) => LevelKeys(Top.arg) \cap self.values = {}
       /\ InSolve({"store"}) =>
              /\ LevelKeys(Top.arg) \cap self.values = {}
              /\ self'.values \ self.values = LevelKeys(Top.arg)]_vars


\* The level of a successor: its players (Dreidel), its total (LCR)
SuccLevel(ns) == IF game = "dreidel" THEN Len(ns) - 1 ELSE SumSeq(ns)

\* C6: no successor of an enumerated (state, turn) of level L has a level
\* above L; each is classified terminal, lower-level or same-level, lower
\* only below L and same-level only when its level is L.
C6_LevelsNeverRise ==
    InSolve({"gmres"}) =>
        LET rows == sys
        IN  \A i \in 1..Len(rows) : \A t \in rows[i].terms :
                t.cls # "raise" =>
                    /\ t.cls \in {"terminal", "lower", "same"}
                    /\ SuccLevel(t.ns) <= Top.arg
                    /\ t.cls = "same" => SuccLevel(t.ns) = Top.arg
                    /\ t.cls = "lower" => SuccLevel(t.ns) < Top.arg

C6_Witness ==
    /\ InSolve({"gmres"})
    /\ Top.arg = 3
    /\ \E i \in 1..Len(sys) :
           /\ \E t \in sys[i].terms : t.cls = "same" /\ SuccLevel(t.ns) = 3
           /\ \E t \in sys[i].terms : t.cls = "lower" /\ SuccLevel(t.ns) = 2
           /\ \E t \in sys[i].terms : t.cls = "terminal"

\* The elimination value
Lose == self.min_coins - 1

\* The players (1-based slots) of a post-outcome state removed, and kept
Removed(post) == {i \in 1..(Len(post) - 1) : post[i] = Lose}
Survivors(post) == (1..(Len(post) - 1)) \ Removed(post)

\* The survivors in their order, then the pot with the residual holdings
\* of the removed players added
ReducedState(post) ==
    Append(SelectSeq(ButLast(post), LAMBDA c : c # Lose),
           Last(post) + Lose * Cardinality(Removed(post)))

\* The index, among the survivors, of the first survivor after the acting
\* player in cyclic order
NextSurvivor(post, turn) ==
    LET P == Len(post) - 1
        j == CHOOSE j \in 1..P :
                 /\ ((turn + j) % P) + 1 \in Survivors(post)
                 /\ \A h \in 1..(j - 1) : ((turn + h) % P) + 1 \in Removed(post)
    IN  Cardinality({s \in Survivors(post) : s < ((turn + j) % P) + 1})

RemovesAsClaimed(post, turn, r) ==
    /\ r.err = ""
    /\ r.state = ReducedState(post)
    /\ r.turn = NextSurvivor(post, turn)
    /\ r.turn \in 0..(Cardinality(Survivors(post)) - 1)

\* C7 as stated: remove_losers of any post-outcome state of a level >= 2
\* removes exactly the players at the elimination value, adds their
\* holdings to the pot, keeps the survivors in order and returns the index
\* of the first survivor after the acting player.
C7_AsStated ==
    (game = "dreidel" /\ InSolve({"assemble"}) /\ Top.arg >= 2) =>
        LET a == all_states(Top.arg)
        IN  \A i \in 1..Len(a) :
                LET post == PostOutcomes(a[i][1], a[i][2])
                IN  \A k \in 1..Len(post) :
                        RemovesAsClaimed(post[k], a[i][2],
                                         remove_losers(post[k], a[i][2]))

\* C7: as above, except that in win-probability mode a post-outcome state
\* whose player 0 is at the elimination value yields ((0,), 0).
C7_RemoveLosers ==
    (game = "dreidel" /\ InSolve({"assemble"}) /\ Top.arg >= 2) =>
        LET a == all_states(Top.arg)
        IN  \A i \in 1..Len(a) :
                LET post == PostOutcomes(a[i][1], a[i][2])
                IN  \A k \in 1..Len(post) :
                        LET r == remove_losers(post[k], a[i][2])
                        IN  IF ~self.is_ev /\ post[k][1] = Lose
                            THEN r = Returned(<<0>>, 0)
                            ELSE RemovesAsClaimed(post[k], a[i][2], r)

C7_Witness ==
    /\ game = "dreidel" /\ InSolve({"assemble"}) /\ Top.arg = 3
    /\ LET a == all_states(Top.arg)
       IN  \E i \in 1..Len(a) :
               LET post == PostOutcomes(a[i][1], a[i][2])
                   r == remove_losers(post[4], a[i][2])
               IN  /\ a[i][2] = 2
                   /\ Removed(post[4]) = {3}
                   /\ r.state = ReducedState(post[4])
                   /\ Len(r.state) = 3
                   /\ r.turn = 0

\* The game has already ended at the state: at most one player is left
\* (Dreidel), at most one player holds coins (LCR)
Ended(state) ==
    IF game = "dreidel" THEN Len(state) - 1 <= 1
    ELSE Cardinality({i \in 1..Len(state) : state[i] > 0}) <= 1

\* C8 as stated: in expected-turn-count mode every row has diagonal 1 and
\* base term 1 whenever the game has not ended at its state, 0 only when
\* it has.
C8_AsStated ==
    (self.is_ev /\ InSolve({"gmres"})) =>
        LET rows == sys
        IN  \A i \in 1..Len(rows) :
                /\ rows[i].diag = 1
                /\ rows[i].base \in {0, 1}
                /\ ~Ended(rows[i].state) => rows[i].base = 1
                /\ rows[i].base = 0 => Ended(rows[i].state)

\* The acting player has a coin to roll for (every Dreidel player acts)
Acts(state, turn) == game = "dreidel" \/ state[turn + 1] # 0

\* C8: in expected-turn-count mode every row has diagonal 1; its base term
\* is 1 whenever the game has not ended and, in LCR, the acting player
\* holds a coin; it is 0 only when the game has ended or, in LCR, the
\* acting player holds no coin: an LCR row whose acting player holds 0
\* coins has base term 0 even while others still hold coins.
C8_BaseTerm ==
    (self.is_ev /\ InSolve({"gmres"})) =>
        LET rows == sys
        IN  \A i \in 1..Len(rows) :
                LET s == rows[i].state
                    t == rows[i].turn
                IN  /\ rows[i].diag = 1
                    /\ rows[i].base \in {0, 1}
                    /\ (~Ended(s) /\ Acts(s, t)) => rows[i].base = 1
                    /\ rows[i].base = 0 => (Ended(s) \/ ~Acts(s, t))
                    /\ ~Acts(s, t) => rows[i].base = 0

C8_Witness ==
    /\ game = "lcr" /\ self.is_ev /\ InSolve({"gmres"})
    /\ \E i \in 1..Len(sys) :
           /\ sys[i].state[sys[i].turn + 1] = 0
           /\ ~Ended(sys[i].state)
           /\ sys[i].base = 0
    /\ \E i \in 1..Len(sys) :
           /\ ~Ended(sys[i].state)
           /\ sys[i].base = 1

RECURSIVE SumNum(_)
SumNum(terms) ==
    IF terms = {} THEN 0
    ELSE LET t == CHOOSE x \in terms : TRUE
         IN  t.num + SumNum(terms \ {t})

RECURSIVE Pow(_, _)
Pow(b, e) == IF e = 0 THEN 1 ELSE b * Pow(b, e - 1)

\* C9: the weights of the successors of a non-terminal enumerated (state,
\* turn) sum to 1: four outcomes of weight 1/4 each in Dreidel; in LCR the
\* distinct outcomes of the 6^d rolls, d = min(state[turn], max_rolls),
\* each of weight count / 6^d, a single successor of weight 1 when d = 0.
C9_WeightsSumToOne ==
    (InSolve({"gmres"}) /\ Top.arg >= MinLevel) =>
        LET rows == sys
        IN  \A i \in 1..Len(rows) :
                LET terms == rows[i].terms
                    d == Min(rows[i].state[rows[i].turn + 1], self.max_rolls)
                IN  ~rows[i].direct =>
                        /\ \A t \in terms : t.num >= 1 /\ t.den >= 1
                        /\ \A t, u \in terms : t.den = u.den
                        /\ \E t \in terms : SumNum(terms) = t.den
                        /\ game = "dreidel" =>
                               /\ {t.k : t \in terms} = 1..4
                               /\ Cardinality(terms) = 4
                               /\ \A t \in terms : t.num = 1 /\ t.den = 4
                        /\ game = "lcr" =>
                               /\ \A t \in terms : t.den = Pow(6, d)
                               /\ \A t, u \in terms : t.ns = u.ns => t = u
                               /\ d = 0 =>
                                      \E t \in terms :
                                          /\ terms = {t}
                                          /\ t.num = 1
                                          /\ t.ns = rows[i].state

C9_Witness ==
    /\ game = "lcr" /\ InSolve({"gmres"}) /\ self.max_rolls = 3
    /\ \E i \in 1..Len(sys) :
           /\ \E t \in sys[i].terms : t.den = 216 /\ t.num > 1
           /\ SumNum(sys[i].terms) = 216
    /\ \E i \in 1..Len(sys) :
           /\ ~sys[i].direct
           /\ \E t \in sys[i].terms : t.den = 1

\* C10: a solve request for a level below the smallest admissible one is
\* rejected before any state is enumerated: its frame never reaches the
\* enumeration, and values and the stored level stay as they were.
C10_RejectedEagerly ==
    [][(stack # <<>> /\ Top.arg < MinLevel) =>
           /\ self' = self
           /\ stack' # <<>> =>
                  stack'[Len(stack')].pc \notin {"assemble", "gmres", "store"}
      ]_vars

\* The largest level a new object is asked for
TopLevel == IF game = "dreidel" THEN MaxPlayers ELSE MaxTotal

\* C11: when the iterative solver reports a non-zero status for level L,
\* solve ends with the fatal error, every frame left, and values holds no
\* (state, turn) entry of level L nor of any higher level.
C11_FailedSolveStoresNothing ==
    outcome = "AssertionError: info" =>
        /\ stack = <<>>
        /\ \A l \in Marker..TopLevel : LevelKeys(l) \cap self.values = {}

C11_Witness ==
    /\ outcome = "AssertionError: info"
    /\ Marker = 3
    /\ LevelKeys(2) # {} /\ LevelKeys(2) \subseteq self.values
    /\ LevelKeys(3) # {} /\ LevelKeys(3) \cap self.values = {}

\* C12: in expected-turn-count mode solve(1) of a Dreidel object builds
\* every row of the 1-player level without a runtime error: the four
\* outcomes of every enumerated state are game over, none is same-level or
\* lower-level, and the right-hand side is the one turn of the base term.
C12_SinglePlayerCompletes ==
    (game = "dreidel" /\ self.is_ev /\ InSolve({"assemble"}) /\ Top.arg = 1) =>
        LET rows == AssembleRows(Top.arg)
        IN  /\ Len(rows) >= 1
            /\ \A i \in 1..Len(rows) :
                   /\ rows[i].err = ""
                   /\ rows[i].base = 1
                   /\ Cardinality(rows[i].terms) = 4
                   /\ \A t \in rows[i].terms :
                          t.cls = "terminal" /\ t.credit = 0

\* C14: the column solve computes for a same-level successor (next_state,
\* next_turn) of an enumerated row is the index of the row all_states
\* enumerates for that pair; it lies in 0..(rows - 1), so the matrix is
\* square.
C14_ColumnIsRowOfSuccessor ==
    InSolve({"gmres"}) =>
        \A i \in 1..Len(sys) : \A t \in sys[i].terms :
            t.cls = "same" =>
                /\ t.col \in 0..(Len(sys) - 1)
                /\ sys[t.col + 1].state = t.ns
                /\ sys[t.col + 1].turn = t.nt

C14_Witness ==
    /\ InSolve({"gmres"}) /\ Top.arg = 3
    /\ \E i \in 1..Len(sys) : \E t \in sys[i].terms :
           /\ t.cls = "same"
           /\ t.ns # sys[i].state
           /\ t.col > i
           /\ sys[t.col + 1].state = t.ns
           /\ sys[t.col + 1].turn = t.nt
    /\ \E i \in 1..Len(sys) : \E t \in sys[i].terms :
           t.cls = "same" /\ t.col + 1 < i

\* The rolls of d dice, each a sequence of positions of Faces
RECURSIVE RollsOf(_)
RollsOf(d) ==
    IF d = 0 THEN {<<>>}
    ELSE {Append(r, f) : r \in RollsOf(d - 1), f \in 1..Len(Faces)}

\* next_state after the dice of a roll, one after the other
RECURSIVE RollResult(_, _, _)
RollResult(state, turn, roll) ==
    IF roll = <<>> THEN state
    ELSE ApplyDie(RollResult(state, turn, ButLast(roll)), turn,
                  Faces[Last(roll)])

\* The dice of a roll that came up centre: their coin goes to no player
Centre(roll) ==
    Cardinality({i \in 1..Len(roll) : ~(Faces[roll[i]] < self.num_players)})

\* A successor of Dreidel.next_states is well formed: the coins are all
\* there, every player left holds min_coins or more, the pot 1 or more
WellFormed(r) ==
    /\ r.err = ""
    /\ Len(r.state) >= 2
    /\ SumSeq(r.state) = self.num_coins
    /\ \A j \in 1..(Len(r.state) - 1) : r.state[j] >= self.min_coins
    /\ Last(r.state) >= 1
    /\ Last(r.state) # Lose

C16_LowerLookupsHit ==
    /\ outcome # "KeyError"
    /\ InSolve({"gmres"}) =>
           LET lower == UNION {{t \in sys[i].terms : t.cls = "lower"} :
                                 i \in 1..Len(sys)}
           IN  /\ \A t \in lower :
                      /\ t.err = ""
                      /\ <<t.ns, t.nt>> \in self.values
                      /\ SuccLevel(t.ns) \in MinLevel..(Top.arg - 1)
                      /\ game = "lcr" => t.ns[t.nt + 1] # SumSeq(t.ns)
               /\ \A l \in MinLevel..(Top.arg - 1) :
                      {<<t.ns, t.nt>> : t \in {u \in lower : SuccLevel(u.ns) = l}}
                          \subseteq LevelKeys(l)

C16_Witness ==
    /\ game = "lcr" /\ InSolve({"gmres"}) /\ Top.arg = 3
    /\ \E i \in 1..Len(sys) :
           /\ \E t \in sys[i].terms :
                  /\ t.cls = "lower" /\ SuccLevel(t.ns) = 2
                  /\ <<t.ns, t.nt>> \in self.values
           /\ \E t \in sys[i].terms :
                  /\ t.cls = "lower" /\ SuccLevel(t.ns) = 1
                  /\ <<t.ns, t.nt>> \in self.values

\* What solve makes of the k-th outcome of an enumerated (state, turn) in
\* win-probability mode, against the players of the post-outcome state
Player0Tracked(level, state, turn, k) ==
    LET post == PostOutcomes(state, turn)[k]
        r == remove_losers(post, turn)
        t == dreidel_term(level, k, r)
    IN  /\ r.err = ""
        /\ t.num = 1 /\ t.den = 4
        /\ IF 1 \in Removed(post)
           THEN /\ r.state = <<0>>
                /\ t.cls = "terminal" /\ t.credit = 0
           ELSE /\ r.state = ReducedState(post)
                /\ r.state[1] = post[1]
                /\ t.cls = "terminal" <=> Survivors(post) = {1}
                /\ t.credit = 1 <=> Survivors(post) = {1}
                /\ t.credit \in {0, 1}

\* C17: in win-probability mode slot 0 of every successor other than the
\* sentinel is the player of slot 0 of the origin; a game-over outcome is
\* credited 1 (with weight 1/4) exactly when player 0 is the only player
\* left, and 0 whenever player 0 is removed, alone or with others.
C17_PlayerZeroTracked ==
    (game = "dreidel" /\ ~self.is_ev /\ InSolve({"assemble"})) =>
        LET a == all_states(Top.arg)
        IN  \A i \in 1..Len(a) : \A k \in 1..4 :
                Player0Tracked(Top.arg, a[i][1], a[i][2], k)

C17_Witness ==
    /\ game = "dreidel" /\ ~self.is_ev /\ InSolve({"assemble"})
    /\ Top.arg = 3
    /\ LET a == all_states(Top.arg)
       IN  /\ \E i \in 1..Len(a) : \E k \in 1..4 :
                  LET post == PostOutcomes(a[i][1], a[i][2])[k]
                  IN  /\ 1 \in Removed(post)
                      /\ Cardinality(Removed(post)) = 2
                      /\ dreidel_term(3, k, remove_losers(post, a[i][2])).credit = 0
           /\ \E i \in 1..Len(a) : \E k \in 1..4 :
                  LET post == PostOutcomes(a[i][1], a[i][2])[k]
                  IN  /\ Survivors(post) = {1}
                      /\ dreidel_term(3, k, remove_losers(post, a[i][2])).credit = 1

\* The assertion of Dreidel.solve fails for the level
TooFewCoins(level) == self.num_coins < (self.min_coins + 1) * level

\* C18: Dreidel.solve(num_players) with num_coins < (min_coins + 1) *
\* num_players fails its assertion as its first step: no lower level is
\* solved, and the stored num_players and values stay as they were; the
\* assertion of a level solved recursively never fails.
C18_AssertionFirst ==
    /\ [](game = "dreidel" =>
             /\ (InSolve({"assert"}) /\ Len(stack) >= 2) => ~TooFewCoins(Top.arg)
             /\ stack # <<>> =>
                    \A f \in 1..Len(stack) :
                        stack[f].pc # "assert" => ~TooFewCoins(stack[f].arg))
    /\ [][(game = "dreidel" /\ stack # <<>> /\ TooFewCoins(Top.arg)) =>
              /\ Len(stack) = 1 /\ Top.pc = "assert"
              /\ outcome' = "AssertionError: num_coins"
              /\ stack' = <<>>
              /\ self' = self]_vars

C18_Witness ==
    /\ game = "dreidel"
    /\ outcome = "AssertionError: num_coins"
    /\ self.num_coins = 2 /\ self.min_coins = 0
    /\ Marker = 2
    /\ LevelKeys(2) # {} /\ self.values = LevelKeys(2)

\* C19: whenever a solve call has ended, normally or by a fatal error,
\* every admissible level from the smallest up to the stored marker
\* (num_players, total_coins) has all its (state, turn) keys in values.
C19_MarkerConsistent ==
    (stack = <<>> /\ outcome # "none") =>
        \A l \in MinLevel..Marker : LevelKeys(l) \subseteq self.values

\* The rows of a system from which a terminal outcome can be reached: in
\* one outcome, through a lower-level successor, or through a same-level
\* successor whose row is such a row (the least such set containing S)
RECURSIVE CanExit(_, _)
CanExit(rows, S) ==
    LET more == {i \in 1..Len(rows) :
                    \E t \in rows[i].terms :
                        t.cls = "same" /\ (t.col + 1) \in S}
    IN  IF more \subseteq S THEN S ELSE CanExit(rows, S \cup more)

\* The rows that are terminal or have a terminal or lower-level successor
ExitsAtOnce(rows) ==
    {i \in 1..Len(rows) :
        \/ rows[i].direct
        \/ \E t \in rows[i].terms : t.cls \in {"terminal", "lower"}}

\* C20: from every enumerated (state, turn) of an admissible level some
\* finite sequence of outcomes of positive probability reaches a terminal
\* outcome, directly or through lower levels, so that no set of same-level
\* rows is closed under the transitions.
C20_AbsorptionReachable ==
    (InSolve({"gmres"}) /\ Top.arg >= MinLevel) =>
        /\ \A i \in 1..Len(sys) : \A t \in sys[i].terms :
               /\ t.num >= 1
               /\ t.cls = "lower" => <<t.ns, t.nt>> \in self.values
        /\ CanExit(sys, ExitsAtOnce(sys)) = 1..Len(sys)

C20_Witness ==
    /\ InSolve({"gmres"}) /\ Top.arg = 3 /\ game = "lcr"
    /\ \E i \in 1..Len(sys) :
           /\ ~sys[i].direct
           /\ \A t \in sys[i].terms : t.cls = "same"
           /\ i \notin ExitsAtOnce(sys)
           /\ i \in CanExit(sys, ExitsAtOnce(sys))
    /\ ExitsAtOnce(sys) # 1..Len(sys)

=============================================================================
